---- MODULE Spec2Model ----
(***************************************************************************)
(* The resource-governance core of the ffmpeg-mcp server as a state        *)
(* machine: the job scheduler (src/src/utils/queue.ts, class JobQueue),    *)
(* the result cache (src/src/utils/cache.ts, class CacheManager, and its   *)
(* caller src/src/tools/info.ts, class MediaInfoTool) and the security     *)
(* manager (src/unnamed/part_005, class SecurityManager: rate limiter and  *)
(* argument sanitizer). Each component has its own specification; the      *)
(* variables of the other components stand still in it.                    *)
(*                                                                         *)
(* The scheduler has one action per handler of the event loop:             *)
(*   addJob            a caller submits a job                              *)
(*   Tick              the setInterval callback: processQueue, then        *)
(*                     cleanupCompleted                                    *)
(*   ExecutorSettles   the continuation of startJob after                  *)
(*                     `await this.executeJob(job)`                        *)
(*   TimeoutFires      the setTimeout callback armed by startJob           *)
(*   cancelJob         a caller cancels a job id                           *)
(*   AdvanceClock      Date.now() moves on                                 *)
(*                                                                         *)
(* JavaScript runs each handler to completion, so each is one atomic step. *)
(* The await in startJob is a suspension point: what follows it runs in a  *)
(* later step. executeJob stands for the executor ("actual execution would *)
(* be handled by the specific tools"): how long the call takes is left     *)
(* open, so the timeout or a cancelJob may come first; what the call       *)
(* reports is what its body in this class does.                            *)
(***************************************************************************)
EXTENDS Integers, Sequences, FiniteSets, TLC

\* ------------------------------------------------------------------ bounds

\* Number of job ids the model submits (each addJob makes a fresh id).
MaxJobs == 3

\* Priorities are drawn from 0..MaxPriority.
MaxPriority == 1

\* The clock takes MaxClock steps of ClockStep milliseconds.
MaxClock == 1

ClockStep == 70000

\* config.maxConcurrentJobs, the concurrency ceiling.
maxConcurrentJobs == 2

\* The file paths of the file system are 1..MaxPaths.
MaxPaths == 7

\* config.cacheSize, the maximum entry count of the cache.
cacheSize == 1

\* The maximum entry counts the eviction sweep is examined with are
\* 1..MaxSweepSize.
MaxSweepSize == 5

\* An entry is hit until its accessCount is MaxAccess.
MaxAccess == 2

\* The content of a path is written at most MaxVersion times.
MaxVersion == 1

\* The cache is observed for MaxCacheClock milliseconds.
MaxCacheClock == 1

\* A sweep is examined on caches of up to maxSize + MaxExcess entries.
MaxExcess == 2

\* The hit-count scenario is examined with maximum ScenarioMaxSize, with
\* an entry of accessCount HighAccess, in a sweep at time ScenarioClock.
ScenarioMaxSize == 5

HighAccess == 100

ScenarioClock == 100000

\* Number of rate-limited clients.
MaxClients == 1

\* config.rateLimitMaxRequests, the request ceiling per window.
rateLimitMaxRequests == 2

\* config.rateLimitWindow, the window length in seconds.
rateLimitWindow == 1

\* Argument lists have at most MaxArgs tokens.
MaxArgs == 3

\* The validateFilePath calls a behaviour makes.
MaxValidations == 2

\* A batch_process request names at most MaxFiles files.
MaxFiles == 3

\* ----------------------------------------------------- program constants

\* cleanupCompleted: const maxAge = 60000
maxAge == 60000

\* config.security.maxFileSize: 5 GB (file sizes are counted in GB).
maxFileSize == 5

\* --------------------------------------------------------------- domains

JobIds == 1..MaxJobs

Priorities == 0..MaxPriority

\* What the work a job describes yields when it is carried out.
Work == {"succeeds", "fails"}

Paths == 1..MaxPaths

\* The paths media-info requests are made for.
RequestedPaths == {1, 2}

SweepSizes == 1..MaxSweepSize

\* The concurrent callers of MediaInfoTool.getMediaInfo.
Callers == {"c1", "c2"}

Clients == 1..MaxClients

\* --------------------------------------------------------------- state

VARIABLES
    queue,        \* JobQueue.queue: the pending jobs, in array order, each
                  \* with its id and its priority
    running,      \* JobQueue.running: ids of the running Map
    completed,    \* JobQueue.completed: id -> timestamp
    submitted,    \* the job ids addJob has handed out
    handle,       \* state of the promise addJob returned: the first
                  \* settlement wins, later resolve/reject calls are ignored
    settleCalls,  \* how many times job.resolve / job.reject were called
    timer,        \* the setTimeout of startJob: none, armed, cleared, fired
    exec,         \* the executeJob call of startJob: idle, inflight, done
    signalled,    \* jobs for which the executor was told to terminate
    now,          \* Date.now()
    mediaInfoCache, \* CacheManager.mediaInfoCache: the entries, in Map order
    maxSize,        \* CacheManager.maxSize
    fileExists,     \* the file system: the paths that exist
    fileMtime,      \* the file system: stats.mtime.getTime() of each path
    fileVersion,    \* how many times the content of each path was written
    call,           \* the MediaInfoTool.getMediaInfo call of each caller
    rateLimitMap,   \* SecurityManager.rateLimitMap: client -> entry
    blockedIPs,     \* SecurityManager.blockedIPs
    admittedAt,     \* the times at which checkRateLimit returned true
    args,           \* the argument of a sanitizeFFmpegArgs call
    sanitized,      \* <<the list the call returned>>, <<>> before it returns
    validated,      \* the validateFilePath calls made: path and outcome
    request,        \* the tool calls the server has handled
    processes,      \* the external processes FFmpegExecutor has spawned
    tempFiles,      \* the temporary files of the tools: <<>> when the file
                    \* is missing, else <<the call that wrote it>>
    toolCall        \* the concatenateVideos or createGif call of each caller

queueVars == <<queue, running, completed, submitted, handle, settleCalls,
               timer, exec, signalled>>

cacheVars == <<mediaInfoCache, maxSize, fileExists, fileMtime, fileVersion,
               call>>

securityVars == <<rateLimitMap, blockedIPs, admittedAt, args, sanitized>>

tempVars == <<tempFiles, toolCall>>

serverVars == <<validated, request, processes, tempVars>>

vars == <<queueVars, now, cacheVars, securityVars, serverVars>>

Range(s) == {s[i] : i \in 1..Len(s)}

\* The ids of the jobs in the pending queue.
QueuedIds == {queue[i].id : i \in 1..Len(queue)}

\* new JobQueue(...)
QueueInit ==
    /\ queue = <<>>
    /\ running = {}
    /\ completed = [j \in {} |-> 0]
    /\ submitted = {}
    /\ handle = [j \in JobIds |-> "pending"]
    /\ settleCalls = [j \in JobIds |-> 0]
    /\ timer = [j \in JobIds |-> "none"]
    /\ exec = [j \in JobIds |-> "idle"]
    /\ signalled = {}

\* The file system the server starts on: every path exists, written once,
\* at time 0. No media-info call is in flight.
FilesInit ==
    /\ fileExists = Paths
    /\ fileMtime = [p \in Paths |-> 0]
    /\ fileVersion = [p \in Paths |-> 0]
    /\ call = [c \in Callers |-> [pc |-> "idle", path |-> 1, seen |-> 0]]

\* new CacheManager(...) with config.cacheSize = m.
CacheInit(m) ==
    /\ mediaInfoCache = <<>>
    /\ maxSize = m

\* new SecurityManager(...); no sanitizeFFmpegArgs call has been made.
SecurityInit ==
    /\ rateLimitMap = [c \in {} |-> 0]
    /\ blockedIPs = {}
    /\ admittedAt = [c \in Clients |-> <<>>]
    /\ args = <<>>
    /\ sanitized = <<>>

\* A caller that has made no concatenateVideos or createGif call.
NoCall ==
    [tool |-> "none", pc |-> "idle", retained |-> FALSE, written |-> FALSE,
     read |-> <<>>, exit |-> <<>>, result |-> "none"]

\* The server has handled no tool call, validated no path and spawned no
\* process.
ServerInit ==
    /\ validated = <<>>
    /\ request = <<>>
    /\ processes = <<>>
    /\ tempFiles = [list |-> <<>>, palette |-> <<>>]
    /\ toolCall = [c \in Callers |-> NoCall]

\* setupInfrastructure: the server builds its security manager, its cache
\* and its job queue.
Init ==
    /\ QueueInit
    /\ now = 0
    /\ FilesInit
    /\ CacheInit(cacheSize)
    /\ SecurityInit
    /\ ServerInit

\* ------------------------------------------------------------- helpers

\* job.resolve / job.reject: one more call; the promise keeps its first
\* outcome.
Settle(j, outcome) ==
    /\ settleCalls' = [settleCalls EXCEPT ![j] = @ + 1]
    /\ handle' = [handle EXCEPT ![j] = IF @ = "pending" THEN outcome ELSE @]

\* The comparator written the wrong way round, (a, b) => a.priority -
\* b.priority: lower priority first.
PrecedesAscending(q, k, i) ==
    \/ q[k].priority < q[i].priority
    \/ q[k].priority = q[i].priority /\ k < i

\* A sort that puts the later of two equal elements first.
PrecedesNewestFirst(q, k, i) ==
    \/ q[k].priority > q[i].priority
    \/ q[k].priority = q[i].priority /\ k > i

\* Array.prototype.sort((a, b) => b.priority - a.priority) is a stable sort:
\* the element at k ends up ahead of the element at i when the comparator
\* puts it first (higher priority), or ranks them equal and k is ahead of i.
Precedes(q, k, i) ==
    \/ q[k].priority > q[i].priority
    \/ q[k].priority = q[i].priority /\ k < i

\* The sorted array: at place r the element that r - 1 others precede.
sortByPriority(q) ==
    [r \in 1..Len(q) |->
        q[CHOOSE i \in 1..Len(q) :
            Cardinality({k \in 1..Len(q) : Precedes(q, k, i)}) = r - 1]]

\* The ceiling test written with > instead of >=.
SlotFreeOffByOne == Cardinality(running) <= maxConcurrentJobs

\* processQueue's two early returns.
SlotFree == Cardinality(running) < maxConcurrentJobs

CanDispatch == SlotFree /\ queue # <<>>

\* executeJob: what the call reports for job j whose work would yield w. The
\* body is `throw new Error('Job execution not implemented in base class')`,
\* whatever the job.
executeJob(j, w) == "error"

\* cleanupCompleted: the entries that stay.
cleanupCompleted(c) ==
    LET keep == {j \in DOMAIN c : ~(now - c[j] > maxAge)}
    IN  [j \in keep |-> c[j]]

getJobStatus(j) ==
    IF j \in QueuedIds THEN "queued"
    ELSE IF j \in running THEN "running"
    ELSE IF j \in DOMAIN completed THEN "completed"
    ELSE "not_found"

\* cancelJob's return value.
cancelJobReturns(j) == j \in QueuedIds \/ j \in running

\* ------------------------------------------------------------- actions

\* addJob builds a job with a fresh id (type, Date.now() and a random
\* suffix): the model hands out the smallest id not in use, so ids grow in
\* submission order as long as no id is forgotten.
nextId == CHOOSE j \in JobIds \ submitted : \A k \in JobIds \ submitted : j <= k

addJob(p) ==
    /\ submitted # JobIds
    /\ queue' = Append(queue, [id |-> nextId, priority |-> p])
    /\ submitted' = submitted \cup {nextId}
    /\ UNCHANGED <<running, completed, handle, settleCalls, timer, exec,
                   signalled, now>>

\* startJob without its setTimeout.
startJobNoTimer(j) ==
    /\ running' = running \cup {j}
    /\ exec' = [exec EXCEPT ![j] = "inflight"]
    /\ UNCHANGED timer

\* startJob up to its await: the job enters the running Map, the timeout is
\* armed and executeJob is called.
startJob(j) ==
    /\ running' = running \cup {j}
    /\ timer' = [timer EXCEPT ![j] = "armed"]
    /\ exec' = [exec EXCEPT ![j] = "inflight"]

\* processQueue reading queue[0] where it should shift it off the queue.
processQueueNoShift ==
    IF CanDispatch
    THEN \E sorted \in {sortByPriority(queue)} :
             /\ queue' = sorted
             /\ startJob(Head(sorted).id)
    ELSE UNCHANGED <<queue, running, timer, exec>>

\* processQueue: at most one job per call, the head of the sorted queue; the
\* queue stays sorted.
processQueue ==
    IF CanDispatch
    THEN \E sorted \in {sortByPriority(queue)} :
             /\ queue' = Tail(sorted)
             /\ startJob(Head(sorted).id)
    ELSE UNCHANGED <<queue, running, timer, exec>>

\* The setInterval callback: processQueue, then cleanupCompleted.
Tick ==
    /\ UNCHANGED <<submitted, handle, settleCalls, signalled, now>>
    /\ processQueue
    /\ completed' = cleanupCompleted(completed)

\* startJob after the await: the success path, or the catch block.
ExecutorSettles(j, w) ==
    /\ exec[j] = "inflight"
    /\ exec' = [exec EXCEPT ![j] = "done"]
    /\ IF executeJob(j, w) = "success"
       THEN /\ timer' = [timer EXCEPT ![j] = IF @ = "armed" THEN "cleared" ELSE @]
            /\ completed' = [k \in DOMAIN completed \cup {j} |->
                               IF k = j THEN now ELSE completed[k]]
            /\ running' = running \ {j}
            /\ Settle(j, "success")
       ELSE /\ running' = running \ {j}
            /\ Settle(j, "error")
            /\ UNCHANGED <<timer, completed>>
    /\ UNCHANGED <<queue, submitted, signalled, now>>

\* A timeout callback that empties the running Map instead of deleting its
\* own job.
TimeoutFiresClearsRunning(j) ==
    /\ timer[j] = "armed"
    /\ timer' = [timer EXCEPT ![j] = "fired"]
    /\ Settle(j, "timeout")
    /\ running' = {}
    /\ UNCHANGED <<queue, completed, submitted, exec, signalled, now>>

\* The setTimeout callback of startJob.
TimeoutFires(j) ==
    /\ timer[j] = "armed"
    /\ timer' = [timer EXCEPT ![j] = "fired"]
    /\ Settle(j, "timeout")
    /\ running' = running \ {j}
    /\ UNCHANGED <<queue, completed, submitted, exec, signalled, now>>

\* cancelJob rejecting a pending job without the splice that removes it.
cancelJobNoSplice(j) ==
    /\ IF j \in QueuedIds
       THEN /\ Settle(j, "cancelled")
            /\ UNCHANGED <<queue, running>>
       ELSE IF j \in running
       THEN /\ Settle(j, "cancelled")
            /\ running' = running \ {j}
            /\ UNCHANGED queue
       ELSE UNCHANGED <<queue, running, handle, settleCalls>>
    /\ UNCHANGED <<completed, submitted, timer, exec, signalled, now>>

cancelJob(j) ==
    /\ IF j \in QueuedIds
       THEN /\ queue' = SelectSeq(queue, LAMBDA e : e.id # j)
            /\ Settle(j, "cancelled")
            /\ UNCHANGED running
       ELSE IF j \in running
       THEN /\ Settle(j, "cancelled")
            /\ running' = running \ {j}
            /\ UNCHANGED queue
       ELSE UNCHANGED <<queue, running, handle, settleCalls>>
    /\ UNCHANGED <<completed, submitted, timer, exec, signalled, now>>

AdvanceClock ==
    /\ now < MaxClock * ClockStep
    /\ now' = now + ClockStep
    /\ UNCHANGED <<queue, running, completed, submitted, handle,
                   settleCalls, timer, exec, signalled>>

\* In a step of the scheduler the cache and the security manager stand
\* still.
QueueOnly == UNCHANGED <<cacheVars, securityVars, serverVars>>

Next ==
    \/ QueueOnly /\ \E p \in Priorities : addJob(p)
    \/ QueueOnly /\ Tick
    \/ QueueOnly /\ \E j \in JobIds, w \in Work : ExecutorSettles(j, w)
    \/ QueueOnly /\ \E j \in JobIds : TimeoutFires(j)
    \/ QueueOnly /\ \E j \in JobIds : cancelJob(j)
    \/ QueueOnly /\ AdvanceClock

Spec == Init /\ [][Next]_vars

\* An unbounded stream of submissions over the finite pool of ids: once
\* nothing of the scheduler refers to a job any more (it is in no
\* collection, its timer is not armed and its executeJob call has returned),
\* its id stands for a later job with a fresh id.
Forget(j) ==
    /\ j \in submitted
    /\ j \notin QueuedIds /\ j \notin running /\ j \notin DOMAIN completed
    /\ timer[j] # "armed" /\ exec[j] # "inflight"
    /\ submitted' = submitted \ {j}
    /\ handle' = [handle EXCEPT ![j] = "pending"]
    /\ settleCalls' = [settleCalls EXCEPT ![j] = 0]
    /\ timer' = [timer EXCEPT ![j] = "none"]
    /\ exec' = [exec EXCEPT ![j] = "idle"]
    /\ UNCHANGED <<queue, running, completed, signalled, now>>

\* The clock is left standing: dispatch reads nothing that depends on it.
StreamNext ==
    \/ QueueOnly /\ \E p \in Priorities : addJob(p)
    \/ QueueOnly /\ Tick
    \/ QueueOnly /\ \E j \in JobIds, w \in Work : ExecutorSettles(j, w)
    \/ QueueOnly /\ \E j \in JobIds : TimeoutFires(j)
    \/ QueueOnly /\ \E j \in JobIds : cancelJob(j)
    \/ QueueOnly /\ \E j \in JobIds : Forget(j)

\* The setInterval callback keeps firing, a due timer fires and every
\* executeJob call returns.
StreamSpec ==
    /\ Init /\ [][StreamNext]_vars
    /\ WF_vars(Tick /\ QueueOnly)
    /\ \A j \in JobIds : WF_vars(TimeoutFires(j) /\ QueueOnly)
    /\ \A j \in JobIds :
           WF_vars((\E w \in Work : ExecutorSettles(j, w)) /\ QueueOnly)

\* An armed timer that is not cleared fires: the runtime runs a due
\* setTimeout callback. Nothing is assumed of the executor.
TimerSpec == Spec /\ \A j \in JobIds : WF_vars(TimeoutFires(j) /\ QueueOnly)

\* ============================================================ result cache
\* src/src/utils/cache.ts (CacheManager) and its one caller,
\* src/src/tools/info.ts (MediaInfoTool.getMediaInfo). config.enableCaching
\* is true. An entry is a record key / data / timestamp / accessCount; its
\* data is the version of the file's content the metadata was computed from.

\* The entry cached for path p in cache c.
HasEntryIn(c, p) == \E i \in 1..Len(c) : c[i].key = p

EntryIn(c, p) == c[CHOOSE i \in 1..Len(c) : c[i].key = p]

HasEntry(p) == HasEntryIn(mediaInfoCache, p)

\* A lookup that trusts every entry it finds: no fs.statSync.
entryValidNoStat(p, e) == TRUE

\* getMediaInfo's validity check: fs.statSync succeeds and the file's mtime
\* is not later than the entry's timestamp.
entryValid(p, e) == p \in fileExists /\ ~(fileMtime[p] > e.timestamp)

\* CacheManager.getMediaInfo's return value: <<>> for null, <<data>> for a
\* hit.
getMediaInfoReturns(p) ==
    IF HasEntry(p) /\ entryValid(p, EntryIn(mediaInfoCache, p))
    THEN <<EntryIn(mediaInfoCache, p).data>>
    ELSE <<>>

\* CacheManager.getMediaInfo's effect on the Map: an entry that fails its
\* check is deleted, an entry that is returned has its accessCount
\* incremented.
getMediaInfo(p) ==
    IF ~HasEntry(p)
    THEN UNCHANGED mediaInfoCache
    ELSE IF getMediaInfoReturns(p) = <<>>
    THEN mediaInfoCache' = SelectSeq(mediaInfoCache, LAMBDA e : e.key # p)
    ELSE /\ EntryIn(mediaInfoCache, p).accessCount < MaxAccess
         /\ mediaInfoCache' =
                [i \in 1..Len(mediaInfoCache) |->
                    IF mediaInfoCache[i].key = p
                    THEN [mediaInfoCache[i] EXCEPT !.accessCount = @ + 1]
                    ELSE mediaInfoCache[i]]

\* The sort comparator of cleanupCache puts a ahead of b when scoreA - scoreB
\* is negative, the score being accessCount / (Date.now() - timestamp). An
\* entry of age 0 scores Infinity; Infinity - Infinity is NaN, which sort
\* takes for equal. With the division multiplied out:
ScoreBelow(a, b) ==
    a.accessCount * (now - b.timestamp) < b.accessCount * (now - a.timestamp)

\* The place of entry i of c in the sorted array (from 0): the sort is
\* stable, equal scores keep their Map order.
SortedPlace(c, i) ==
    Cardinality({k \in 1..Len(c) :
                    \/ ScoreBelow(c[k], c[i])
                    \/ ~ScoreBelow(c[i], c[k]) /\ k < i})

\* entries.slice(0, Math.floor(this.maxSize * 0.2)): how many entries a
\* sweep removes. The double nearest to 0.2 is above 0.2 by less than one
\* part in 10^16, so the floor is that of maxSize / 5.
toRemoveCount == maxSize \div 5

\* cleanupCache applied to cache c: nothing when c holds at most maxSize
\* entries, else the first toRemoveCount entries of the sorted array are
\* deleted; the others keep their Map order.
cleanupCache(c) ==
    IF Len(c) <= maxSize
    THEN c
    ELSE LET toRemove == {c[i].key : i \in {k \in 1..Len(c) :
                                              SortedPlace(c, k) < toRemoveCount}}
         IN  SelectSeq(c, LAMBDA e : e.key \notin toRemove)

\* this.mediaInfoCache.set(key, entry): a key that is present keeps its
\* place in the Map, a new key goes to the end.
MapSet(c, entry) ==
    IF HasEntryIn(c, entry.key)
    THEN [i \in 1..Len(c) |-> IF c[i].key = entry.key THEN entry ELSE c[i]]
    ELSE Append(c, entry)

\* The Map after setMediaInfo's set: the entry carries the current time and
\* accessCount 1.
AfterSet(p, d) ==
    MapSet(mediaInfoCache,
           [key |-> p, data |-> d, timestamp |-> now, accessCount |-> 1])

\* setMediaInfo's test for running cleanupCache, size > maxSize * 1.2: the
\* double nearest to 1.2 times a small integer rounds to the exact product,
\* so the test is 5 * size > 6 * maxSize.
TooLarge(c) == 5 * Len(c) > 6 * maxSize

\* CacheManager.setMediaInfo: the entry is stored, then cleanupCache runs if
\* the cache is getting too large.
setMediaInfo(p, d) ==
    \E put \in {AfterSet(p, d)} :
        mediaInfoCache' = IF TooLarge(put) THEN cleanupCache(put) ELSE put

\* A caller looks a path up in the cache.
Lookup(p) ==
    /\ getMediaInfo(p)
    /\ UNCHANGED <<queueVars, now, maxSize, fileExists, fileMtime,
                   fileVersion, call, securityVars, serverVars>>

\* A caller stores metadata for a path, computed from its current content.
Store(p) ==
    /\ p \in fileExists
    /\ setMediaInfo(p, fileVersion[p])
    /\ UNCHANGED <<queueVars, now, maxSize, fileExists, fileMtime,
                   fileVersion, call, securityVars, serverVars>>

\* The setInterval callback of startCleanupInterval.
CleanupInterval ==
    /\ mediaInfoCache' = cleanupCache(mediaInfoCache)
    /\ UNCHANGED <<queueVars, now, maxSize, fileExists, fileMtime,
                   fileVersion, call, securityVars, serverVars>>

\* MediaInfoTool.getMediaInfo up to its await, for caller c: validateFilePath
\* (which throws unless the file exists), the cache lookup, and on a miss the
\* start of ffmpeg.execute.
ToolGetMediaInfo(c, p) ==
    /\ call[c].pc = "idle"
    /\ p \in fileExists
    /\ getMediaInfo(p)
    /\ call' = IF getMediaInfoReturns(p) = <<>>
               THEN [call EXCEPT ![c] = [pc |-> "executing", path |-> p,
                                         seen |-> fileVersion[p]]]
               ELSE call
    /\ UNCHANGED <<queueVars, now, maxSize, fileExists, fileMtime,
                   fileVersion, securityVars, serverVars>>

\* MediaInfoTool.getMediaInfo after the await, for caller c. ffmpeg read the
\* file at some time during the call: v is a version the content had since
\* the call began. When execute rejects, the catch block parses the message
\* and caches the result; when it resolves, the method throws.
ToolExecuteSettles(c, outcome, v) ==
    /\ call[c].pc = "executing"
    /\ v \in call[c].seen..fileVersion[call[c].path]
    /\ IF outcome = "rejects"
       THEN setMediaInfo(call[c].path, v)
       ELSE UNCHANGED mediaInfoCache
    /\ call' = [call EXCEPT ![c] = [pc |-> "idle", path |-> 1, seen |-> 0]]
    /\ UNCHANGED <<queueVars, now, maxSize, fileExists, fileMtime,
                   fileVersion, securityVars, serverVars>>

\* Another process writes the file at path p (creating it if need be).
ModifyFile(p) ==
    /\ fileVersion[p] < MaxVersion
    /\ fileExists' = fileExists \cup {p}
    /\ fileMtime' = [fileMtime EXCEPT ![p] = now]
    /\ fileVersion' = [fileVersion EXCEPT ![p] = @ + 1]
    /\ UNCHANGED <<queueVars, now, mediaInfoCache, maxSize, call,
                   securityVars, serverVars>>

\* Another process deletes the file at path p.
DeleteFile(p) ==
    /\ p \in fileExists
    /\ fileExists' = fileExists \ {p}
    /\ UNCHANGED <<queueVars, now, mediaInfoCache, maxSize, fileMtime,
                   fileVersion, call, securityVars, serverVars>>

\* Date.now() moves on by ms milliseconds, up to the horizon.
Elapse(ms, horizon) ==
    /\ now + ms <= horizon
    /\ now' = now + ms
    /\ UNCHANGED <<queueVars, cacheVars, securityVars, serverVars>>

ExecuteOutcomes == {"rejects", "resolves"}

Versions == 0..MaxVersion

\* The cache under concurrent media-info requests while files are written
\* and deleted.
CacheNext ==
    \/ \E c \in Callers, p \in RequestedPaths : ToolGetMediaInfo(c, p)
    \/ \E c \in Callers, o \in ExecuteOutcomes, v \in Versions :
           ToolExecuteSettles(c, o, v)
    \/ \E p \in RequestedPaths : Lookup(p)
    \/ CleanupInterval
    \/ \E p \in RequestedPaths : ModifyFile(p)
    \/ \E p \in RequestedPaths : DeleteFile(p)
    \/ Elapse(1, MaxCacheClock)

CacheSpec == Init /\ [][CacheNext]_vars

\* The cache as its callers can drive it, lookups and stores in any order,
\* while files are written and deleted.
CacheApiNext ==
    \/ \E p \in RequestedPaths : Store(p)
    \/ \E p \in RequestedPaths : Lookup(p)
    \/ CleanupInterval
    \/ \E p \in RequestedPaths : ModifyFile(p)
    \/ \E p \in RequestedPaths : DeleteFile(p)
    \/ Elapse(1, MaxCacheClock)

CacheApiSpec == Init /\ [][CacheApiNext]_vars

\* The eviction sweep for every maximum size in SweepSizes: entries for new
\* paths are stored one after the other (the smallest path without an entry
\* next) and the periodic sweep runs.
SweepInit ==
    /\ QueueInit
    /\ now = 0
    /\ FilesInit
    /\ \E m \in SweepSizes : CacheInit(m)
    /\ SecurityInit
    /\ ServerInit

NewPath(p) == ~HasEntry(p) /\ \A q \in Paths : q < p => HasEntry(q)

SweepNext ==
    \/ \E p \in Paths :
           NewPath(p) /\ Len(mediaInfoCache) < maxSize + MaxExcess /\ Store(p)
    \/ CleanupInterval
    \/ Elapse(1, MaxCacheClock)

SweepSpec == SweepInit /\ [][SweepNext]_vars

\* The sweep on a cache in which one entry has been hit many times: the
\* cache holds ScenarioMaxSize + 1 entries, stored at any of three times
\* before the sweep (a hundred seconds, ten seconds and a millisecond
\* before), one of them with accessCount HighAccess, the others with 1.
ScenarioTimestamps == {0, ScenarioClock - 10000, ScenarioClock - 1}

ScenarioCaches ==
    {[i \in 1..(ScenarioMaxSize + 1) |->
         [key |-> i, data |-> 0, timestamp |-> ts[i],
          accessCount |-> IF i = h THEN HighAccess ELSE 1]] :
       h \in 1..(ScenarioMaxSize + 1),
       ts \in [1..(ScenarioMaxSize + 1) -> ScenarioTimestamps]}

ScenarioInit ==
    /\ QueueInit
    /\ now = ScenarioClock
    /\ FilesInit
    /\ maxSize = ScenarioMaxSize
    /\ mediaInfoCache \in ScenarioCaches
    /\ SecurityInit
    /\ ServerInit

ScenarioNext == CleanupInterval

ScenarioSpec == ScenarioInit /\ [][ScenarioNext]_vars

\* ============================================================ rate limiter
\* src/unnamed/part_005 (SecurityManager): checkRateLimit and the periodic
\* cleanupRateLimitMap. A RateLimitEntry is a record count / windowStart.

\* config.rateLimitWindow * 1000: the window length in milliseconds.
WindowMs == rateLimitWindow * 1000

\* The window test with >= for >: a window is over once its length has
\* passed.
windowExpiredAtLength(e) == now - e.windowStart >= WindowMs

\* A window that never runs out: the count of a client is kept for good.
windowExpiredNever(e) == FALSE

\* now - entry.windowStart > this.config.rateLimitWindow * 1000
windowExpired(e) == now - e.windowStart > WindowMs

HasWindow(c) == c \in DOMAIN rateLimitMap

\* checkRateLimit's return value for client c.
checkRateLimitReturns(c) ==
    IF c \in blockedIPs THEN FALSE
    ELSE IF ~HasWindow(c) THEN TRUE
    ELSE IF windowExpired(rateLimitMap[c]) THEN TRUE
    ELSE ~(rateLimitMap[c].count + 1 > rateLimitMaxRequests)

\* The admissions of a client that lie no more than one window length before
\* time t.
Recent(times, t) == SelectSeq(times, LAMBDA a : t - a <= WindowMs)

\* checkRateLimit(clientId): a blocked client is turned away; a client
\* without an entry, or whose window has expired, starts a window with count
\* 1; otherwise the count is incremented and a count above the ceiling puts
\* the client on the block list.
checkRateLimit(c) ==
    /\ IF c \in blockedIPs
       THEN UNCHANGED <<rateLimitMap, blockedIPs>>
       ELSE IF ~HasWindow(c) \/ windowExpired(rateLimitMap[c])
       THEN /\ rateLimitMap' =
                   [k \in DOMAIN rateLimitMap \cup {c} |->
                       IF k = c THEN [count |-> 1, windowStart |-> now]
                       ELSE rateLimitMap[k]]
            /\ UNCHANGED blockedIPs
       ELSE /\ rateLimitMap' = [rateLimitMap EXCEPT ![c].count = @ + 1]
            /\ blockedIPs' = IF rateLimitMap[c].count + 1 > rateLimitMaxRequests
                             THEN blockedIPs \cup {c}
                             ELSE blockedIPs
    /\ admittedAt' = IF checkRateLimitReturns(c)
                     THEN [admittedAt EXCEPT
                              ![c] = Append(Recent(@, now), now)]
                     ELSE admittedAt
    /\ UNCHANGED <<queueVars, now, cacheVars, args, sanitized, serverVars>>

\* A sweep that also takes the clients it removes off the block list.
cleanupRateLimitMapUnblocking ==
    /\ rateLimitMap' = [k \in {c \in DOMAIN rateLimitMap :
                                  ~windowExpired(rateLimitMap[c])} |->
                           rateLimitMap[k]]
    /\ blockedIPs' = {c \in blockedIPs : c \in DOMAIN rateLimitMap'}

\* cleanupRateLimitMap: the entries whose window has expired are deleted.
cleanupRateLimitMap ==
    /\ rateLimitMap' = [k \in {c \in DOMAIN rateLimitMap :
                                  ~windowExpired(rateLimitMap[c])} |->
                           rateLimitMap[k]]
    /\ UNCHANGED blockedIPs

\* The setInterval callback of SecurityManager.startCleanupInterval (its
\* cleanupTempDirectory touches nothing of the rate limiter).
SecurityCleanupInterval ==
    /\ cleanupRateLimitMap
    /\ UNCHANGED <<queueVars, now, cacheVars, admittedAt, args, sanitized,
                   serverVars>>

\* The instants at which the rate limiter is observed: the start, the last
\* instants of a window and the first after it, for two windows on end.
RateInstants ==
    {0, 1, WindowMs, WindowMs + 1, 2 * WindowMs + 1, 2 * WindowMs + 2}

RateNext ==
    \/ \E c \in Clients : checkRateLimit(c)
    \/ SecurityCleanupInterval
    \/ \E t \in RateInstants : t > now /\ Elapse(t - now, t)

RateSpec == Init /\ [][RateNext]_vars

\* ====================================================== argument sanitizer
\* src/unnamed/part_005 (SecurityManager): sanitizeFFmpegArgs and the
\* validateFilePath it calls. Arguments are strings; what the code reads of
\* a string's characters is computed on Chars of it.

\* const dangerousFlags = ['-f', 'lavfi', '-protocol_whitelist', '-safe',
\* '0', '-f', 'concat']
dangerousFlags == {"-f", "lavfi", "-protocol_whitelist", "-safe", "0", "concat"}

\* The working directory of the server process (process.cwd()).
cwd == "/work"

\* config.security.allowedDirectories: ['/tmp', '/var/tmp', process.cwd()]
allowedDirectories == {"/tmp", "/var/tmp", cwd}

\* config.security.blockedExtensions
blockedExtensions == {".exe", ".bat", ".sh", ".ps1"}

\* The files that exist, by absolute path.
ExistingFiles == {"/tmp/in.mp4", "/tmp/big.mp4", "/etc/passwd", "/tmp/run.sh",
                  "/tmp/run.SH", "/tmpx/in.mp4", "/work/in.mp4"}

\* The path arguments of the model: a file that exists under /tmp, a file
\* under /tmp that does not exist yet, and a relative path that climbs out
\* of the working directory.
PathArgs == {"/tmp/in.mp4", "/tmp/out.mp4", "../in.mp4"}

\* The paths validateFilePath is called with: the empty string, paths with
\* a traversal marker, paths outside and inside the allowed directories
\* (one that only shares the characters of /tmp), blocked extensions in
\* both cases, a missing file and relative paths.
TestPaths == {"", "/tmp/in.mp4", "/tmp/out.mp4", "../in.mp4", "~/in.mp4",
              "/etc/passwd", "/tmp/run.sh", "/tmp/run.SH", "/tmpx/in.mp4",
              "./in.mp4", "in.mp4"}

\* The arguments lists are made of.
Tokens == dangerousFlags \cup {"-i", "pipe:", "-y"} \cup PathArgs

\* The argument lists of at most MaxArgs tokens.
ArgLists == UNION {[1..n -> Tokens] : n \in 0..MaxArgs}

\* The strings of the model: arguments, paths, directories and extensions.
Strings ==
    {"-f", "lavfi", "-protocol_whitelist", "-safe", "0", "concat", "-i",
     "pipe:", "-y", "", "/tmp/in.mp4", "/tmp/out.mp4", "../in.mp4",
     "~/in.mp4", "/etc/passwd", "/tmp/run.sh", "/tmp/run.SH",
     "/tmpx/in.mp4", "./in.mp4", "in.mp4", "/tmp", "/var/tmp", "/work",
     ".exe", ".bat", ".sh", ".ps1", "/work/in.mp4", "/tmp/big.mp4", "null",
     "-", "-filter_complex", "[0:v]setpts=2*PTS[v];[0:a]atempo=0.5[a]",
     "-map", "[v]", "[a]", "/tmp/out", "/tmp/out/in.mp4",
     "/tmp/out/passwd", "/tmp/out/out.mp4"}

\* The characters of a string of the model.
Chars(a) ==
    CASE a = "-f" -> <<"-", "f">>
      [] a = "lavfi" -> <<"l", "a", "v", "f", "i">>
      [] a = "-protocol_whitelist" ->
          <<"-", "p", "r", "o", "t", "o", "c", "o", "l", "_", "w", "h",
            "i", "t", "e", "l", "i", "s", "t">>
      [] a = "-safe" -> <<"-", "s", "a", "f", "e">>
      [] a = "0" -> <<"0">>
      [] a = "concat" -> <<"c", "o", "n", "c", "a", "t">>
      [] a = "-i" -> <<"-", "i">>
      [] a = "pipe:" -> <<"p", "i", "p", "e", ":">>
      [] a = "-y" -> <<"-", "y">>
      [] a = "" -> <<>>
      [] a = "/tmp/in.mp4" ->
          <<"/", "t", "m", "p", "/", "i", "n", ".", "m", "p", "4">>
      [] a = "/tmp/out.mp4" ->
          <<"/", "t", "m", "p", "/", "o", "u", "t", ".", "m", "p", "4">>
      [] a = "../in.mp4" -> <<".", ".", "/", "i", "n", ".", "m", "p", "4">>
      [] a = "~/in.mp4" -> <<"~", "/", "i", "n", ".", "m", "p", "4">>
      [] a = "/etc/passwd" ->
          <<"/", "e", "t", "c", "/", "p", "a", "s", "s", "w", "d">>
      [] a = "/tmp/run.sh" ->
          <<"/", "t", "m", "p", "/", "r", "u", "n", ".", "s", "h">>
      [] a = "/tmp/run.SH" ->
          <<"/", "t", "m", "p", "/", "r", "u", "n", ".", "S", "H">>
      [] a = "/tmpx/in.mp4" ->
          <<"/", "t", "m", "p", "x", "/", "i", "n", ".", "m", "p", "4">>
      [] a = "./in.mp4" -> <<".", "/", "i", "n", ".", "m", "p", "4">>
      [] a = "in.mp4" -> <<"i", "n", ".", "m", "p", "4">>
      [] a = "/tmp" -> <<"/", "t", "m", "p">>
      [] a = "/var/tmp" -> <<"/", "v", "a", "r", "/", "t", "m", "p">>
      [] a = "/work" -> <<"/", "w", "o", "r", "k">>
      [] a = ".exe" -> <<".", "e", "x", "e">>
      [] a = ".bat" -> <<".", "b", "a", "t">>
      [] a = ".sh" -> <<".", "s", "h">>
      [] a = ".ps1" -> <<".", "p", "s", "1">>
      [] a = "/work/in.mp4" ->
          <<"/", "w", "o", "r", "k", "/", "i", "n", ".", "m", "p", "4">>
      [] a = "/tmp/big.mp4" ->
          <<"/", "t", "m", "p", "/", "b", "i", "g", ".", "m", "p", "4">>
      [] a = "null" -> <<"n", "u", "l", "l">>
      [] a = "-" -> <<"-">>
      [] a = "-filter_complex" ->
          <<"-", "f", "i", "l", "t", "e", "r", "_", "c", "o", "m", "p",
            "l", "e", "x">>
      [] a = "[0:v]setpts=2*PTS[v];[0:a]atempo=0.5[a]" ->
          <<"[", "0", ":", "v", "]", "s", "e", "t", "p", "t", "s", "=",
            "2", "*", "P", "T", "S", "[", "v", "]", ";", "[", "0", ":",
            "a", "]", "a", "t", "e", "m", "p", "o", "=", "0", ".", "5",
            "[", "a", "]">>
      [] a = "-map" -> <<"-", "m", "a", "p">>
      [] a = "[v]" -> <<"[", "v", "]">>
      [] a = "[a]" -> <<"[", "a", "]">>
      [] a = "/tmp/out" -> <<"/", "t", "m", "p", "/", "o", "u", "t">>
      [] a = "/tmp/out/in.mp4" ->
          <<"/", "t", "m", "p", "/", "o", "u", "t", "/", "i", "n", ".",
            "m", "p", "4">>
      [] a = "/tmp/out/passwd" ->
          <<"/", "t", "m", "p", "/", "o", "u", "t", "/", "p", "a", "s",
            "s", "w", "d">>
      [] a = "/tmp/out/out.mp4" ->
          <<"/", "t", "m", "p", "/", "o", "u", "t", "/", "o", "u", "t",
            ".", "m", "p", "4">>

\* The string whose characters are c.
StringOf(c) == CHOOSE a \in Strings : Chars(a) = c

\* String.prototype.startsWith
StartsWith(s, t) == Len(t) <= Len(s) /\ SubSeq(s, 1, Len(t)) = t

\* String.prototype.includes
Includes(s, t) ==
    \E i \in 1..(Len(s) - Len(t) + 1) : SubSeq(s, i, i + Len(t) - 1) = t

\* The last index of character ch in s, 0 when there is none.
LastIndexOf(s, ch) ==
    LET I == {i \in 1..Len(s) : s[i] = ch}
    IN  IF I = {} THEN 0 ELSE CHOOSE i \in I : \A k \in I : k <= i

\* The lower-case form of a character.
LowerChar(ch) ==
    CASE ch = "A" -> "a"
      [] ch = "B" -> "b"
      [] ch = "C" -> "c"
      [] ch = "D" -> "d"
      [] ch = "E" -> "e"
      [] ch = "F" -> "f"
      [] ch = "G" -> "g"
      [] ch = "H" -> "h"
      [] ch = "I" -> "i"
      [] ch = "J" -> "j"
      [] ch = "K" -> "k"
      [] ch = "L" -> "l"
      [] ch = "M" -> "m"
      [] ch = "N" -> "n"
      [] ch = "O" -> "o"
      [] ch = "P" -> "p"
      [] ch = "Q" -> "q"
      [] ch = "R" -> "r"
      [] ch = "S" -> "s"
      [] ch = "T" -> "t"
      [] ch = "U" -> "u"
      [] ch = "V" -> "v"
      [] ch = "W" -> "w"
      [] ch = "X" -> "x"
      [] ch = "Y" -> "y"
      [] ch = "Z" -> "z"
      [] OTHER -> ch

\* String.prototype.toLowerCase
toLowerCase(s) == [i \in 1..Len(s) |-> LowerChar(s[i])]

\* path.basename: what follows the last separator.
basename(s) == SubSeq(s, LastIndexOf(s, "/") + 1, Len(s))

\* path.extname: from the last dot of the base name on; empty when the base
\* name has no dot, starts with its only dot, or is '..'.
extname(s) ==
    LET b == basename(s)
        d == LastIndexOf(b, ".")
    IN  IF d <= 1 \/ b = <<".", ".">> THEN <<>> ELSE SubSeq(b, d, Len(b))

\* path.resolve of one path: an absolute path is kept, a relative one is
\* appended to the working directory (a leading './' dropped). The paths it
\* is used for hold no '..' segment: validateFilePath throws on those before
\* it looks at the resolved path.
resolve(s) ==
    IF StartsWith(s, <<"/">>) THEN s
    ELSE Chars(cwd) \o <<"/">> \o
         (IF StartsWith(s, <<".", "/">>) THEN SubSeq(s, 3, Len(s)) ELSE s)

\* arg.startsWith('/') only.
PathLikeAbsolute(a) == StartsWith(Chars(a), <<"/">>)

\* arg.startsWith('/') || arg.startsWith('./') || arg.startsWith('../')
PathLike(a) ==
    \/ StartsWith(Chars(a), <<"/">>)
    \/ StartsWith(Chars(a), <<".", "/">>)
    \/ StartsWith(Chars(a), <<".", ".", "/">>)

\* filePath.includes('..') || filePath.includes('~')
HasTraversalMarker(a) ==
    Includes(Chars(a), <<".", ".">>) \/ Includes(Chars(a), <<"~">>)

\* this.config.allowedDirectories.some(dir =>
\*     resolvedPath.startsWith(path.resolve(dir)))
UnderAllowedDirectory(a) ==
    \E dir \in allowedDirectories :
        StartsWith(resolve(Chars(a)), resolve(Chars(dir)))

\* An extension test that compares the extension as it is written.
HasBlockedExtensionCaseSensitive(a) ==
    extname(Chars(a)) \in {Chars(e) : e \in blockedExtensions}

\* this.config.blockedExtensions.includes(path.extname(filePath).toLowerCase())
HasBlockedExtension(a) ==
    toLowerCase(extname(Chars(a))) \in {Chars(e) : e \in blockedExtensions}

\* fs.existsSync(resolvedPath)
PathExists(a) == resolve(Chars(a)) \in {Chars(f) : f \in ExistingFiles}

\* validateFilePath: "ok" when it returns, else the error it throws.
validateFilePath(a) ==
    IF a = "" THEN "Invalid file path"
    ELSE IF HasTraversalMarker(a)
    THEN "Invalid file path: directory traversal not allowed"
    ELSE IF ~UnderAllowedDirectory(a)
    THEN "Access to this directory is not allowed"
    ELSE IF HasBlockedExtension(a) THEN "File extension is not allowed"
    ELSE IF ~PathExists(a) THEN "File not found"
    ELSE "ok"

\* validateFilePath returns without throwing.
validateFilePathPasses(a) == validateFilePath(a) = "ok"

\* A validateFilePath call with a path of TestPaths: the call and its
\* outcome are recorded.
validateFilePathCall(p) ==
    /\ Len(validated) < MaxValidations
    /\ validated' =
           Append(validated, [path |-> p, result |-> validateFilePath(p)])
    /\ UNCHANGED <<queueVars, now, cacheVars, securityVars, request,
                   processes, tempVars>>

ValidateNext == \E p \in TestPaths : validateFilePathCall(p)

ValidateSpec == Init /\ [][ValidateNext]_vars

\* A test that only knows the tokens that are flags.
IsDangerousFlag(a) == a \in {"-f", "-protocol_whitelist", "-safe"}

\* dangerousFlags.includes(arg)
IsDangerous(a) == a \in dangerousFlags

\* The loop of sanitizeFFmpegArgs from index i on (indices from 1): what it
\* pushes onto sanitized.
RECURSIVE sanitizeFrom(_, _)
sanitizeFrom(a, i) ==
    IF i > Len(a) THEN <<>>
    ELSE IF IsDangerous(a[i]) THEN sanitizeFrom(a, i + 1)
    ELSE IF a[i] = "-i" /\ i + 1 <= Len(a) /\ a[i + 1] = "pipe:"
    THEN sanitizeFrom(a, i + 2)
    ELSE IF PathLike(a[i]) /\ ~validateFilePathPasses(a[i])
    THEN sanitizeFrom(a, i + 1)
    ELSE <<a[i]>> \o sanitizeFrom(a, i + 1)

sanitizeFFmpegArgs(a) == sanitizeFrom(a, 1)

\* A sanitizeFFmpegArgs call for an argument list of ArgLists is about to be
\* made.
SanitizeInit ==
    /\ QueueInit
    /\ now = 0
    /\ FilesInit
    /\ CacheInit(cacheSize)
    /\ rateLimitMap = [c \in {} |-> 0]
    /\ blockedIPs = {}
    /\ admittedAt = [c \in Clients |-> <<>>]
    /\ args \in ArgLists
    /\ sanitized = <<>>
    /\ ServerInit

\* The call returns: sanitized holds the returned list.
Sanitize ==
    /\ sanitized = <<>>
    /\ sanitized' = <<sanitizeFFmpegArgs(args)>>
    /\ UNCHANGED <<queueVars, now, cacheVars, rateLimitMap, blockedIPs,
                   admittedAt, args, serverVars>>

SanitizeNext == Sanitize

SanitizeSpec == SanitizeInit /\ [][SanitizeNext]_vars

\* ========================================================= ffmpeg executor
\* src/src/utils/ffmpeg.ts (FFmpegExecutor): execute and executeWithProgress
\* spawn the external process; its close event settles the call.

\* config.ffmpeg.hwAccelOptions.nvidia: what detectHardwareAcceleration
\* returns on linux with enableGPU set, as the default configuration has it.
hwArgs == <<"-hwaccel", "cuda", "-hwaccel_output_format", "cuda">>

\* args.findIndex(arg => arg === '-i'), counted from 1: 0 when there is none.
IndexOfInput(a) ==
    LET I == {i \in 1..Len(a) : a[i] = "-i"}
    IN  IF I = {} THEN 0 ELSE CHOOSE i \in I : \A k \in I : i <= k

\* addHardwareAcceleration: hwArgs go in front of the first -i, unless that
\* -i is the first argument or there is none.
addHardwareAcceleration(a) ==
    LET i == IndexOfInput(a)
    IN  IF i > 1
        THEN SubSeq(a, 1, i - 1) \o hwArgs \o SubSeq(a, i, Len(a))
        ELSE a

\* The process execute spawns for the argument list a.
ExecuteProcess(a) ==
    [via |-> "execute", given |-> a,
     argv |-> addHardwareAcceleration(sanitizeFFmpegArgs(a)),
     state |-> "running"]

\* The process executeWithProgress spawns for the argument list a.
ExecuteWithProgressProcess(a) ==
    [via |-> "executeWithProgress", given |-> a, argv |-> a,
     state |-> "running"]

\* The exit codes of the external process.
ExitCodes == {0, 1}

\* The indices of the processes that have not closed yet.
InFlight == {k \in 1..Len(processes) : processes[k].state = "running"}

\* ffmpeg.execute(args)
execute ==
    /\ processes = <<>>
    /\ processes' = <<ExecuteProcess(args)>>
    /\ UNCHANGED <<queueVars, now, cacheVars, securityVars, validated,
                   request, tempVars>>

\* ffmpeg.executeWithProgress(args)
executeWithProgress ==
    /\ processes = <<>>
    /\ processes' = <<ExecuteWithProgressProcess(args)>>
    /\ UNCHANGED <<queueVars, now, cacheVars, securityVars, validated,
                   request, tempVars>>

\* process.on('close'): the call resolves on exit code 0 and rejects on any
\* other.
ProcessCloses(k, code) ==
    /\ k \in InFlight
    /\ processes' =
           [processes EXCEPT
               ![k].state = IF code = 0 THEN "resolved" ELSE "rejected"]
    /\ UNCHANGED <<queueVars, now, cacheVars, securityVars, validated,
                   request, tempVars>>

\* One call of the executor, for an argument list of ArgLists.
ExecutorNext ==
    \/ execute
    \/ executeWithProgress
    \/ \E k \in 1..Len(processes), code \in ExitCodes : ProcessCloses(k, code)

ExecutorSpec == SanitizeInit /\ [][ExecutorNext]_vars

\* ============================================================== tool calls
\* src/src/server.ts (the CallToolRequestSchema handler) with three of the
\* tools it dispatches to: get_media_info (src/src/tools/info.ts),
\* create_slow_motion (src/src/tools/advanced.ts) and batch_process
\* (src/src/tools/merge.ts, BatchTool). The handler runs up to its first
\* await in one step: its checks, the tool's checks, the cache lookup and
\* every spawn happen before anything else can run.

\* stats.size of a file, in GB.
FileSize(a) == IF a = "/tmp/big.mp4" THEN 6 ELSE 1

\* SecurityManager.validateFileSize: "ok" when it returns, else the error.
\* fs.statSync throws when it is given no path or the file is missing.
validateFileSize(a) ==
    IF a = "" \/ ~PathExists(a) THEN "ENOENT"
    ELSE IF FileSize(a) > maxFileSize THEN "File size exceeds limit"
    ELSE "ok"

\* validateFilePath of src/src/utils/validation.ts, which the tools call: it
\* returns without throwing.
toolValidateFilePath(a) == a # "" /\ ~HasTraversalMarker(a) /\ PathExists(a)

\* validateOutputPath of src/src/utils/validation.ts returns without
\* throwing (it creates the output directory when that is missing).
validateOutputPath(a) == a # "" /\ ~HasTraversalMarker(a)

\* path.join(dir, path.basename(file))
joinBasename(dir, file) ==
    StringOf(Chars(dir) \o <<"/">> \o basename(Chars(file)))

\* The paths a request names as its input or its file: none, a file under
\* /tmp, one that is too large, a file outside the allowed directories and
\* a path with a traversal marker.
GatePaths == {"", "/tmp/in.mp4", "/tmp/big.mp4", "/etc/passwd", "../in.mp4"}

\* The files of a batch: a file under /tmp, a file outside the allowed
\* directories and a file that does not exist.
BatchFiles == {"/tmp/in.mp4", "/etc/passwd", "/tmp/out.mp4"}

\* The file lists of a batch_process request.
FileLists == UNION {[1..n -> BatchFiles] : n \in 0..MaxFiles}

\* The tool calls of the model: the name and the arguments of the request,
\* an absent argument being "" (or the empty list).
Requests ==
    {[name |-> "get_media_info", input |-> "", output |-> "", file |-> f,
      files |-> <<>>, output_dir |-> ""] : f \in GatePaths}
    \cup
    {[name |-> "create_slow_motion", input |-> i, output |-> o, file |-> "",
      files |-> <<>>, output_dir |-> ""] :
        i \in GatePaths, o \in {"", "/tmp/out.mp4"}}
    \cup
    {[name |-> "batch_process", input |-> "", output |-> "", file |-> "",
      files |-> fs, output_dir |-> "/tmp/out"] : fs \in FileLists}

\* The file paths a request names.
FilePaths(r) == ({r.input, r.file} \ {""}) \cup Range(r.files)

\* The cache key of a file a media-info request can get to the cache with.
CacheKey(a) ==
    CASE a = "/tmp/in.mp4" -> 1
      [] a = "/tmp/big.mp4" -> 2
      [] a = "/etc/passwd" -> 3

\* MediaInfoTool.getMediaInfo: ['-i', filePath, '-f', 'null', '-']
MediaInfoArgs(f) == <<"-i", f, "-f", "null", "-">>

\* AdvancedFilterTool.createSlowMotion with the default speed 0.5.
SlowMotionArgs(i, o) ==
    <<"-i", i, "-filter_complex", "[0:v]setpts=2*PTS[v];[0:a]atempo=0.5[a]",
      "-map", "[v]", "-map", "[a]", "-y", o>>

\* BatchTool.convertFile without options.
ConvertArgs(i, o) == <<"-i", i, "-y", o>>

\* BatchTool.processJob gets to its operation: validateFilePath and
\* validateOutputPath return.
JobValid(r, f) ==
    toolValidateFilePath(f) /\ validateOutputPath(joinBasename(r.output_dir, f))

\* The argument lists the tool of request r hands to ffmpeg.execute before
\* its first await, in order.
Executions(r) ==
    IF r.name = "get_media_info"
    THEN IF /\ toolValidateFilePath(r.file)
            /\ getMediaInfoReturns(CacheKey(r.file)) = <<>>
         THEN <<MediaInfoArgs(r.file)>>
         ELSE <<>>
    ELSE IF r.name = "create_slow_motion"
    THEN IF toolValidateFilePath(r.input) /\ validateOutputPath(r.output)
         THEN <<SlowMotionArgs(r.input, r.output)>>
         ELSE <<>>
    ELSE LET valid == SelectSeq(r.files, LAMBDA f : JobValid(r, f))
         IN  [k \in 1..Len(valid) |->
                 ConvertArgs(valid[k], joinBasename(r.output_dir, valid[k]))]

\* The handler of a tool call, up to its first await. The security checks
\* of the handler: validateFilePath of args.input if there is one, then
\* validateFileSize of args.input if there is an args.output. If they pass,
\* the tool runs: its own path checks, for get_media_info the cache lookup,
\* and the spawn of every process it executes. A batch counts the jobs
\* whose checks throw as failed at once, with their error messages.
CallTool(r) ==
    /\ request = <<>>
    /\ LET pathCheck ==
               IF r.input # ""
               THEN <<[path |-> r.input, result |-> validateFilePath(r.input)]>>
               ELSE <<>>
           pathOk == pathCheck = <<>> \/ pathCheck[1].result = "ok"
           sizeCheck ==
               IF pathOk /\ r.output # ""
               THEN <<[path |-> r.input, result |-> validateFileSize(r.input)]>>
               ELSE <<>>
           gateOk == pathOk /\ (sizeCheck = <<>> \/ sizeCheck[1].result = "ok")
           looksUp ==
               gateOk /\ r.name = "get_media_info" /\ toolValidateFilePath(r.file)
           spawned == IF gateOk THEN Executions(r) ELSE <<>>
           isBatch == gateOk /\ r.name = "batch_process"
       IN  /\ validated' = validated \o pathCheck
           /\ IF looksUp
              THEN getMediaInfo(CacheKey(r.file))
              ELSE UNCHANGED mediaInfoCache
           /\ processes' =
                  processes \o
                  [k \in 1..Len(spawned) |-> ExecuteProcess(spawned[k])]
           /\ request' =
                  <<[call |-> r,
                     sized |-> sizeCheck,
                     lookup |-> looksUp,
                     pids |-> (Len(processes) + 1)..
                                  (Len(processes) + Len(spawned)),
                     progress |->
                         [total |-> IF isBatch THEN Len(r.files) ELSE 0,
                          completed |-> 0,
                          failed |-> IF isBatch
                                     THEN Len(r.files) - Len(spawned)
                                     ELSE 0,
                          errors |-> IF isBatch
                                     THEN SelectSeq(r.files,
                                              LAMBDA f : ~JobValid(r, f))
                                     ELSE <<>>],
                     state |-> IF spawned # <<>> THEN "pending"
                               ELSE IF isBatch THEN "returned"
                               ELSE "failed"]>>
    /\ UNCHANGED <<queueVars, now, maxSize, fileExists, fileMtime,
                   fileVersion, call, securityVars, tempVars>>

\* A batch whose failed jobs are counted without their error message.
JobSettlesNoMessage(progress, input, code) ==
    IF code = 0
    THEN [progress EXCEPT !.completed = @ + 1]
    ELSE [progress EXCEPT !.failed = @ + 1]

\* The callback of processBatch for one job after its await: the job whose
\* ffmpeg run succeeded is counted as completed, the job whose run failed
\* is counted as failed and its error message, which names the job's input,
\* is pushed onto errors.
JobSettles(progress, input, code) ==
    IF code = 0
    THEN [progress EXCEPT !.completed = @ + 1]
    ELSE [progress EXCEPT !.failed = @ + 1, !.errors = Append(@, input)]

\* The close event of a process a tool call is awaiting, and what the tool
\* does with it. get_media_info parses and caches what a rejected execute
\* reports and throws when execute resolves; create_slow_motion returns on
\* success; a batch counts the job as completed or failed and returns its
\* progress once every job has settled.
ToolProcessCloses(k, code) ==
    /\ request # <<>>
    /\ k \in InFlight
    /\ LET r == request[1]
           name == r.call.name
           key == CacheKey(r.call.file)
       IN  /\ processes' =
                  [processes EXCEPT
                      ![k].state = IF code = 0 THEN "resolved" ELSE "rejected"]
           /\ IF name = "get_media_info" /\ code # 0
              THEN setMediaInfo(key, fileVersion[key])
              ELSE UNCHANGED mediaInfoCache
           /\ request' =
                  <<[r EXCEPT
                      !.progress =
                          IF name # "batch_process" THEN @
                          ELSE JobSettles(@, processes[k].given[2], code),
                      !.state =
                          IF name = "batch_process"
                          THEN IF InFlight = {k} THEN "returned" ELSE "pending"
                          ELSE IF name = "get_media_info"
                          THEN IF code # 0 THEN "returned" ELSE "failed"
                          ELSE IF code = 0 THEN "returned" ELSE "failed"]>>
    /\ UNCHANGED <<queueVars, now, maxSize, fileExists, fileMtime,
                   fileVersion, call, securityVars, validated, tempVars>>

\* The server handles one tool call.
ServerNext ==
    \/ \E r \in Requests : CallTool(r)
    \/ \E k \in 1..Len(processes), code \in ExitCodes :
           ToolProcessCloses(k, code)

ServerSpec == Init /\ [][ServerNext]_vars

\* ========================================================= temporary files
\* src/src/tools/merge.ts (MergeTool.concatenateVideos) and
\* src/src/tools/gif.ts (GifTool.createGif): the tools that hand data to
\* ffmpeg through a file in /tmp. The server awaits each tool call, so the
\* calls of different requests overlap; each caller of Callers makes one
\* call. ffmpeg is an external process: it opens the files its argument
\* list names at some time while it runs, and exits with a code of
\* ExitCodes.

\* const tempListFile = '/tmp/ffmpeg_concat_list.txt'
tempListFile == "list"

\* '/tmp/palette.png'
paletteFile == "palette"

\* The input lists concatenateVideos is called with; the output is
\* /tmp/out.mp4.
ConcatInputs == {<<"/tmp/in.mp4">>, <<"/tmp/in.mp4", "/tmp/big.mp4">>}

\* The inputs createGif is called with; the output is /tmp/out.mp4.
GifInputs == {"", "/tmp/in.mp4"}

\* The call of caller c ends after its ffmpeg process has exited with code:
\* result is what the promise settles with.
Returns(c, code, result) ==
    toolCall' = [toolCall EXCEPT ![c].pc = "done", ![c].exit = <<code>>,
                                 ![c].result = result]

\* concatenateVideos up to its await: the checks, fs.writeFileSync of the
\* list file and ffmpeg.execute. The list file exists when execute
\* sanitizes the argument list, so its path stays in the arguments.
concatenateVideos(c, inputs) ==
    /\ toolCall[c].pc = "idle"
    /\ IF /\ Len(inputs) >= 2
          /\ \A i \in 1..Len(inputs) : toolValidateFilePath(inputs[i])
          /\ validateOutputPath("/tmp/out.mp4")
       THEN /\ tempFiles' = [tempFiles EXCEPT ![tempListFile] = <<c>>]
            /\ toolCall' = [toolCall EXCEPT
                               ![c] = [NoCall EXCEPT !.tool = "concat",
                                                     !.pc = "executing",
                                                     !.retained = TRUE]]
       ELSE /\ toolCall' = [toolCall EXCEPT
                               ![c] = [NoCall EXCEPT !.tool = "concat",
                                                     !.pc = "done",
                                                     !.result = "error"]]
            /\ UNCHANGED tempFiles
    /\ UNCHANGED <<queueVars, now, cacheVars, securityVars, validated,
                   request, processes>>

\* The ffmpeg process of a call opens the temporary file its arguments name
\* as an input: it reads what the file holds then, or finds it missing.
FfmpegReads(c) ==
    /\ toolCall[c].pc \in {"executing", "paletteuse"}
    /\ toolCall[c].retained
    /\ toolCall[c].read = <<>>
    /\ LET f == IF toolCall[c].tool = "concat" THEN tempListFile
                ELSE paletteFile
       IN  toolCall' = [toolCall EXCEPT
                           ![c].read = IF tempFiles[f] = <<>>
                                       THEN <<"missing">>
                                       ELSE tempFiles[f]]
    /\ UNCHANGED <<queueVars, now, cacheVars, securityVars, validated,
                   request, processes, tempFiles>>

\* What a closing ffmpeg process has done: it exits with code 0 only after
\* it has opened the input its arguments name and found it there.
RunDone(c, code) ==
    toolCall[c].retained =>
        /\ toolCall[c].read # <<>>
        /\ code = 0 => toolCall[c].read # <<"missing">>

\* concatenateVideos after its await. When execute rejects, the method
\* throws and the list file stays. When it resolves, fs.unlinkSync deletes
\* the list file and the method returns, or throws ENOENT on a missing file.
ConcatCloses(c, code) ==
    /\ toolCall[c].pc = "executing"
    /\ RunDone(c, code)
    /\ IF code # 0
       THEN Returns(c, code, "error") /\ UNCHANGED tempFiles
       ELSE IF tempFiles[tempListFile] = <<>>
       THEN Returns(c, code, "error") /\ UNCHANGED tempFiles
       ELSE /\ Returns(c, code, "success")
            /\ tempFiles' = [tempFiles EXCEPT ![tempListFile] = <<>>]
    /\ UNCHANGED <<queueVars, now, cacheVars, securityVars, validated,
                   request, processes>>

\* createGif up to its first await: the checks and ffmpeg.execute, of the
\* palettegen arguments with a palette, of the plain arguments without.
\* execute sanitizes the arguments: the palette path stays in them only if
\* the palette file exists already.
createGif(c, input, palette) ==
    /\ toolCall[c].pc = "idle"
    /\ IF toolValidateFilePath(input) /\ validateOutputPath("/tmp/out.mp4")
       THEN toolCall' =
                [toolCall EXCEPT
                    ![c] = [NoCall EXCEPT
                               !.tool = "gif",
                               !.pc = IF palette THEN "palettegen"
                                      ELSE "simple",
                               !.retained = palette /\
                                            tempFiles[paletteFile] # <<>>]]
       ELSE toolCall' = [toolCall EXCEPT
                            ![c] = [NoCall EXCEPT !.tool = "gif",
                                                  !.pc = "done",
                                                  !.result = "error"]]
    /\ UNCHANGED <<queueVars, now, cacheVars, securityVars, validated,
                   request, processes, tempFiles>>

\* The palettegen process of a call writes its output, the palette file.
FfmpegWrites(c) ==
    /\ toolCall[c].pc = "palettegen"
    /\ toolCall[c].retained
    /\ ~toolCall[c].written
    /\ tempFiles' = [tempFiles EXCEPT ![paletteFile] = <<c>>]
    /\ toolCall' = [toolCall EXCEPT ![c].written = TRUE]
    /\ UNCHANGED <<queueVars, now, cacheVars, securityVars, validated,
                   request, processes>>

\* createGif after its first await, with a palette. The process exits with
\* code 0 only if it had an output to write and has written it. When
\* execute rejects the method throws; when it resolves, the paletteuse
\* arguments are executed: the palette path stays in them if the file
\* exists.
PalettegenCloses(c, code) ==
    /\ toolCall[c].pc = "palettegen"
    /\ code = 0 => toolCall[c].retained /\ toolCall[c].written
    /\ IF code # 0
       THEN Returns(c, code, "error")
       ELSE toolCall' = [toolCall EXCEPT
                            ![c].pc = "paletteuse",
                            ![c].retained = tempFiles[paletteFile] # <<>>]
    /\ UNCHANGED <<queueVars, now, cacheVars, securityVars, validated,
                   request, processes, tempFiles>>

\* createGif after its last await: it returns when execute resolves and
\* throws when execute rejects.
GifCloses(c, code) ==
    /\ toolCall[c].pc \in {"paletteuse", "simple"}
    /\ RunDone(c, code)
    /\ Returns(c, code, IF code = 0 THEN "success" ELSE "error")
    /\ UNCHANGED <<queueVars, now, cacheVars, securityVars, validated,
                   request, processes, tempFiles>>

\* The server starts with /tmp as other programs left it: without a
\* palette file, or with one.
TempInit ==
    /\ QueueInit
    /\ now = 0
    /\ FilesInit
    /\ CacheInit(cacheSize)
    /\ SecurityInit
    /\ validated = <<>>
    /\ request = <<>>
    /\ processes = <<>>
    /\ tempFiles \in {[list |-> <<>>, palette |-> p] : p \in {<<>>, <<"other">>}}
    /\ toolCall = [c \in Callers |-> NoCall]

TempNext ==
    \/ \E c \in Callers, inputs \in ConcatInputs : concatenateVideos(c, inputs)
    \/ \E c \in Callers : FfmpegReads(c)
    \/ \E c \in Callers, code \in ExitCodes : ConcatCloses(c, code)
    \/ \E c \in Callers, input \in GifInputs, palette \in BOOLEAN :
           createGif(c, input, palette)
    \/ \E c \in Callers : FfmpegWrites(c)
    \/ \E c \in Callers, code \in ExitCodes : PalettegenCloses(c, code)
    \/ \E c \in Callers, code \in ExitCodes : GifCloses(c, code)

TempSpec == TempInit /\ [][TempNext]_vars

\* ---------------------------------------------------------------- claims

\* C1: the running set never holds more than maxConcurrentJobs jobs.
C1_RunningWithinCeiling == Cardinality(running) <= maxConcurrentJobs

\* The ceiling is reached while a job is still waiting.
C1_Witness == Cardinality(running) = maxConcurrentJobs /\ queue # <<>>

\* C2: a dispatch takes a pending job that no other pending job outranks:
\* every other pending job has a lower priority, or the same priority and a
\* later submission (ids grow in submission order).
C2_PriorityThenFifo ==
    [][\A d \in Range(queue) :
         d.id \in running' \ running =>
             \A e \in Range(queue) \ {d} :
                 \/ e.priority < d.priority
                 \/ e.priority = d.priority /\ d.id < e.id]_vars

\* Jobs 1, 2, 3 were pending together, job 1 with priority 0 and job 3 with
\* priority 1: job 2, submitted second, has been dispatched first and the
\* queue holds job 3 ahead of job 1.
C2_Witness ==
    /\ submitted = {1, 2, 3}
    /\ running = {2} /\ exec[1] = "idle" /\ exec[3] = "idle"
    /\ queue = <<[id |-> 3, priority |-> 1], [id |-> 1, priority |-> 0]>>

\* C3: no job has its resolve / reject called more than once.
C3_SettledAtMostOnce == \A j \in JobIds : settleCalls[j] <= 1

\* C4: every dispatched job is eventually settled, also when its executor
\* never reports: the timer armed at dispatch fires and rejects it.
C4_DispatchedEventuallySettled ==
    \A j \in JobIds : (exec[j] # "idle") ~> (handle[j] # "pending")

\* The executor has not reported and the timeout has settled the job.
C4_Witness ==
    \E j \in JobIds :
        exec[j] = "inflight" /\ timer[j] = "fired" /\ handle[j] = "timeout"

Pending(j) == j \in QueuedIds

\* Job j is pending and so is a job of strictly higher priority.
HigherPending(j) ==
    \E e, h \in Range(queue) : e.id = j /\ h.priority > e.priority

\* C5 as stated: every pending job leaves the queue (it is dispatched,
\* unless it is cancelled), whatever else keeps being submitted.
C5_NoStarvation == \A j \in JobIds : Pending(j) ~> ~Pending(j)

\* C5 amended: a pending job leaves the queue unless jobs of strictly higher
\* priority are pending again and again; jobs of the same or of a lower
\* priority that keep being submitted do not hold it back.
C5_NoStarvationByEqualOrLower ==
    \A j \in JobIds :
        (Pending(j) /\ ~HigherPending(j)) ~> (~Pending(j) \/ HigherPending(j))

\* A job has been dispatched and two jobs of different priorities are
\* pending, the higher of them outranked by no pending job.
C5_Witness ==
    \E j \in running : \E k, l \in Range(queue) :
        /\ exec[j] = "inflight"
        /\ k.priority > l.priority
        /\ ~HigherPending(k.id)

\* C6: when a job's timeout fires while its executeJob call has not
\* returned, the handle's outcome is the timeout failure and the job is out
\* of the running set; a handle settled as timed out stays so.
C6_TimeoutSettlesAsTimeout ==
    [][\A j \in JobIds :
         /\ (TimeoutFires(j) /\ exec[j] = "inflight") =>
                (handle'[j] = "timeout" /\ j \notin running')
         /\ handle[j] = "timeout" => handle'[j] = "timeout"]_vars

\* C7: when a running job's timeout fires while its executeJob call has not
\* returned, the executor is told to terminate that job's process.
C7_TimeoutTerminatesExecutor ==
    [][\A j \in JobIds :
         (TimeoutFires(j) /\ j \in running /\ exec[j] = "inflight") =>
             j \in signalled']_vars

\* A job cancelled while pending: settled as cancelled and never started.
CancelledPending(j) == handle[j] = "cancelled" /\ exec[j] = "idle"

\* C8: cancelJob on a pending job takes it (and nothing else) off the queue,
\* settles it as cancelled and returns true, and the job is never dispatched
\* afterwards; cancelJob on a running job settles it as cancelled, takes it
\* out of the running set and returns true while its executeJob call is left
\* in flight.
C8_CancelJob ==
    [][\A j \in JobIds :
         /\ (cancelJob(j) /\ Pending(j)) =>
                /\ queue' = SelectSeq(queue, LAMBDA e : e.id # j)
                /\ handle'[j] = "cancelled"
                /\ settleCalls'[j] = 1
                /\ cancelJobReturns(j)
         /\ (cancelJob(j) /\ j \in running) =>
                /\ handle'[j] = "cancelled"
                /\ settleCalls'[j] = 1
                /\ cancelJobReturns(j)
                /\ j \notin running'
                /\ exec'[j] = exec[j]
         /\ CancelledPending(j) =>
                /\ exec'[j] = "idle"
                /\ j \notin running'
                /\ j \notin QueuedIds']_vars

\* One job was cancelled while pending and another while running, whose
\* executeJob call is still in flight.
C8_Witness ==
    \E j, k \in JobIds :
        /\ CancelledPending(j)
        /\ handle[k] = "cancelled" /\ exec[k] = "inflight" /\ k \notin running

InQueue(j) == Cardinality({i \in 1..Len(queue) : queue[i].id = j})

\* C9: every job id is in at most one of the pending queue (and there once),
\* the running set and the completed set, and getJobStatus answers by that
\* membership: not_found exactly for an id that is in none.
C9_OneCollectionPerJob ==
    \A j \in JobIds :
        /\ InQueue(j) + (IF j \in running THEN 1 ELSE 0)
              + (IF j \in DOMAIN completed THEN 1 ELSE 0) <= 1
        /\ getJobStatus(j) = "queued" <=> Pending(j)
        /\ getJobStatus(j) = "running" <=> j \in running
        /\ getJobStatus(j) = "completed" <=> j \in DOMAIN completed
        /\ getJobStatus(j) = "not_found" <=>
              (~Pending(j) /\ j \notin running /\ j \notin DOMAIN completed)

\* A pending job, a running job and a job that has left both.
C9_Witness ==
    \E j, k, l \in submitted :
        /\ getJobStatus(j) = "queued"
        /\ getJobStatus(k) = "running"
        /\ getJobStatus(l) = "not_found" /\ exec[l] = "done"

\* C10: when the executeJob call of a job that is still running (neither
\* timed out nor cancelled) returns and the job's work succeeded, the handle
\* is resolved, the job leaves the running set and its status is completed.
C10_SuccessReachesHandle ==
    [][\A j \in JobIds :
         (ExecutorSettles(j, "succeeds") /\ j \in running) =>
             /\ handle'[j] = "success"
             /\ j \notin running'
             /\ getJobStatus(j)' = "completed"]_vars

\* C11: when the executeJob call of a job that is still running reports an
\* error, the handle is rejected with that error and the job is recorded in
\* the completed Map, so that getJobStatus still answers for it.
C11_ErrorKeepsStatus ==
    [][\A j \in JobIds :
         (ExecutorSettles(j, "fails") /\ j \in running) =>
             /\ handle'[j] = "error"
             /\ getJobStatus(j)' # "not_found"]_vars

\* The file at p has gone, or was modified after the entry cached for p was
\* made.
Outdated(p) ==
    /\ HasEntry(p)
    /\ \/ p \notin fileExists
       \/ fileMtime[p] > EntryIn(mediaInfoCache, p).timestamp

\* C12: CacheManager.getMediaInfo returns null for a path whose file has
\* gone or is strictly newer than the cached entry, and deletes the entry;
\* a path without an entry misses, and an entry comes (back) only by
\* setMediaInfo for that path.
C12_OutdatedEntryIsMissAndRemoved ==
    [][\A p \in RequestedPaths :
         /\ Outdated(p) =>
                /\ getMediaInfoReturns(p) = <<>>
                /\ getMediaInfo(p) => ~HasEntry(p)'
         /\ ~HasEntry(p) => getMediaInfoReturns(p) = <<>>
         /\ (~HasEntry(p) /\ HasEntry(p)') =>
                \E d \in Versions : setMediaInfo(p, d)]_vars

\* One cached path, hit before, was modified after its entry was made, and
\* the file of another cached path has been deleted.
C12_Witness ==
    \E p, q \in RequestedPaths :
        /\ HasEntry(p) /\ p \in fileExists
        /\ fileMtime[p] > EntryIn(mediaInfoCache, p).timestamp
        /\ EntryIn(mediaInfoCache, p).accessCount > 1
        /\ HasEntry(q) /\ q \notin fileExists

\* C13: after an eviction sweep, the periodic one or the one inside
\* setMediaInfo, the cache holds at most maxSize entries.
C13_SweepLeavesAtMostMax ==
    [][/\ CleanupInterval => Len(mediaInfoCache') <= maxSize
       /\ \A p \in Paths, d \in Versions :
              (setMediaInfo(p, d) /\ TooLarge(AfterSet(p, d))) =>
                  Len(mediaInfoCache') <= maxSize]_vars

\* C14: a sweep that runs on more than maxSize entries removes at least one
\* of them, so the cache never holds more than the entries setMediaInfo
\* lets through before it sweeps, and one.
C14_SweepRemovesAndBounds ==
    [][/\ (CleanupInterval /\ Len(mediaInfoCache) > maxSize) =>
              Len(mediaInfoCache') < Len(mediaInfoCache)
       /\ \A p \in Paths, d \in Versions :
              (setMediaInfo(p, d) /\ TooLarge(AfterSet(p, d))) =>
                  Len(mediaInfoCache') < Len(AfterSet(p, d))
       /\ Len(mediaInfoCache') <= (6 * maxSize) \div 5 + 1]_vars

\* C15: when MediaInfoTool.getMediaInfo returns a cache hit, the metadata
\* was computed from the file's current content.
C15_HitIsCurrent ==
    [][\A c \in Callers, p \in RequestedPaths :
         (ToolGetMediaInfo(c, p) /\ getMediaInfoReturns(p) # <<>>) =>
             getMediaInfoReturns(p) = <<fileVersion[p]>>]_vars

\* Client c is not blocked and has a window that is still running.
InWindow(c) ==
    /\ c \notin blockedIPs
    /\ HasWindow(c)
    /\ now - rateLimitMap[c].windowStart <= WindowMs

\* C16: a request that opens a window is admitted as its first; inside a
\* window the request after k counted ones is admitted when k is below the
\* ceiling, and denied when k is the ceiling, which blocks the client; a
\* blocked client is denied and stays blocked, whatever the time and the
\* sweeps.
C16_CeilingThenBlockedForGood ==
    [][\A c \in Clients :
         /\ (checkRateLimit(c) /\ c \notin blockedIPs /\ ~HasWindow(c)) =>
                /\ checkRateLimitReturns(c)
                /\ rateLimitMap'[c].count = 1
         /\ (checkRateLimit(c) /\ InWindow(c)) =>
                /\ rateLimitMap[c].count <= rateLimitMaxRequests
                /\ rateLimitMap[c].count < rateLimitMaxRequests =>
                       (checkRateLimitReturns(c) /\ c \notin blockedIPs')
                /\ rateLimitMap[c].count = rateLimitMaxRequests =>
                       (~checkRateLimitReturns(c) /\ c \in blockedIPs')
         /\ c \in blockedIPs =>
                (~checkRateLimitReturns(c) /\ c \in blockedIPs')]_vars

\* A client blocked in the first window is still blocked, its entry swept
\* away, after two window lengths have passed.
C16_Witness ==
    \E c \in blockedIPs :
        ~HasWindow(c) /\ now > 2 * WindowMs /\ ~checkRateLimitReturns(c)

\* C17: for a client that is not blocked, a request made more than the
\* window length after the window started is admitted and starts a window
\* of count 1 at the current time; a request made no later than that
\* continues the window and increments its count.
C17_WindowRestartsOrContinues ==
    [][\A c \in Clients :
         (checkRateLimit(c) /\ c \notin blockedIPs /\ HasWindow(c)) =>
             /\ now - rateLimitMap[c].windowStart > WindowMs =>
                    /\ checkRateLimitReturns(c)
                    /\ rateLimitMap'[c] = [count |-> 1, windowStart |-> now]
             /\ now - rateLimitMap[c].windowStart <= WindowMs =>
                    /\ rateLimitMap'[c].count = rateLimitMap[c].count + 1
                    /\ rateLimitMap'[c].windowStart =
                           rateLimitMap[c].windowStart]_vars

\* A client's first window ran out and was restarted by the request that
\* came one millisecond after its length, and the new window has been
\* continued by a request at the very end of its length.
C17_Witness ==
    \E c \in Clients \ blockedIPs :
        /\ HasWindow(c)
        /\ rateLimitMap[c] = [count |-> 2, windowStart |-> WindowMs + 1]
        /\ admittedAt[c] = <<WindowMs + 1, 2 * WindowMs + 1>>

\* C18: no more than rateLimitMaxRequests requests of a client are admitted
\* within any span of one window length (admittedAt holds the admissions
\* that lie within one window length before the latest).
C18_SlidingWindowBound ==
    \A c \in Clients : Len(admittedAt[c]) <= rateLimitMaxRequests

\* The list a sanitizeFFmpegArgs call has returned.
Returned == sanitized[1]

\* C19: the list sanitizeFFmpegArgs returns holds none of the tokens of the
\* dangerous list.
C19_NoDangerousToken ==
    sanitized # <<>> =>
        \A i \in 1..Len(Returned) : Returned[i] \notin dangerousFlags

\* A list with a dangerous flag, a dangerous value and a harmless token has
\* been sanitized, and something of it was returned.
C19_Witness ==
    /\ sanitized # <<>> /\ Returned # <<>>
    /\ \E i, k \in 1..Len(args) :
           args[i] \in {"-f", "-safe"} /\ args[k] \in {"lavfi", "concat", "0"}

\* C20: in the list sanitizeFFmpegArgs returns, -i is nowhere immediately
\* followed by pipe:.
C20_NoPipedInput ==
    sanitized # <<>> =>
        \A i \in 1..Len(Returned) - 1 :
            ~(Returned[i] = "-i" /\ Returned[i + 1] = "pipe:")

\* The elements of list a at the indices of K, in the order of a.
KeepIndices(a, K) ==
    LET idx == SelectSeq([i \in 1..Len(a) |-> i], LAMBDA i : i \in K)
    IN  [k \in 1..Len(idx) |-> a[idx[k]]]

\* A path-like argument (one starting with '/', './' or '../') that
\* validateFilePath rejects.
InvalidPathArgument(a) ==
    /\ \/ StartsWith(Chars(a), <<"/">>)
       \/ StartsWith(Chars(a), <<".", "/">>)
       \/ StartsWith(Chars(a), <<".", ".", "/">>)
    /\ validateFilePath(a) # "ok"

\* The indices of a list whose argument is neither dangerous nor an invalid
\* path.
Harmless(a) ==
    {i \in 1..Len(a) : a[i] \notin dangerousFlags /\ ~InvalidPathArgument(a[i])}

\* The indices of a list that hold an -i directly followed by pipe:, or
\* that pipe:.
PipedInput(a) ==
    {i \in 1..Len(a) :
        \/ a[i] = "-i" /\ i + 1 <= Len(a) /\ a[i + 1] = "pipe:"
        \/ a[i] = "pipe:" /\ i > 1 /\ a[i - 1] = "-i"}

\* C21 (as stated): sanitizeFFmpegArgs returns an order-preserving
\* subsequence of its input that holds no path-like argument failing
\* validateFilePath and holds every argument that is neither dangerous nor
\* an invalid path.
C21_HarmlessRetained ==
    sanitized # <<>> =>
        \E K \in SUBSET (1..Len(args)) :
            /\ Returned = KeepIndices(args, K)
            /\ \A i \in K : ~InvalidPathArgument(args[i])
            /\ Harmless(args) \subseteq K

\* C21 (amended): sanitizeFFmpegArgs returns an order-preserving
\* subsequence of its input that holds no path-like argument failing
\* validateFilePath and holds every argument that is neither dangerous, nor
\* an invalid path, nor part of an -i pipe: pair of the input.
C21_HarmlessRetainedButPipedInput ==
    sanitized # <<>> =>
        \E K \in SUBSET (1..Len(args)) :
            /\ Returned = KeepIndices(args, K)
            /\ \A i \in K : ~InvalidPathArgument(args[i])
            /\ (Harmless(args) \ PipedInput(args)) \subseteq K

\* A list with an invalid path, a valid path and a third argument has been
\* sanitized: two of the three were returned.
C21_Witness ==
    /\ sanitized # <<>> /\ Len(Returned) = 2
    /\ \E i, k \in 1..Len(args) :
           InvalidPathArgument(args[i]) /\ args[k] = "/tmp/in.mp4"

\* C22: validateFilePath succeeds exactly when the path is non-empty, holds
\* no '..' and no '~', its resolved form starts with an allowed directory,
\* its lower-cased extension is not blocked and the resolved file exists.
C22_ValidIffAllChecksPass ==
    \A i \in 1..Len(validated) :
        LET p == validated[i].path
            c == Chars(p)
        IN  validated[i].result = "ok" <=>
                /\ p # ""
                /\ ~Includes(c, <<".", ".">>) /\ ~Includes(c, <<"~">>)
                /\ \E dir \in allowedDirectories :
                       StartsWith(resolve(c), Chars(dir))
                /\ toLowerCase(extname(c)) \notin
                       {Chars(e) : e \in blockedExtensions}
                /\ resolve(c) \in {Chars(f) : f \in ExistingFiles}

\* One path has been accepted, and a path with a blocked extension written
\* in upper case has been rejected.
C22_Witness ==
    \E i, k \in 1..Len(validated) :
        /\ validated[i].result = "ok"
        /\ validated[k].path = "/tmp/run.SH" /\ validated[k].result # "ok"

\* C24: the argument list of every process the executor has spawned is what
\* sanitizeFFmpegArgs returns for the list the caller gave (with the
\* hardware-acceleration flags execute adds to it afterwards).
C24_SpawnedArgsSanitized ==
    \A k \in 1..Len(processes) :
        processes[k].argv =
            addHardwareAcceleration(sanitizeFFmpegArgs(processes[k].given))

\* C23: when the handler of a tool call has got to the cache lookup or has
\* invoked the executor, SecurityManager.validateFilePath has passed every
\* file path of the request, validateFileSize has passed its input file and
\* the rate limiter has counted the request.
C23_GateBeforeWork ==
    (request # <<>> /\ (request[1].lookup \/ request[1].pids # {})) =>
        /\ \A p \in FilePaths(request[1].call) :
               \E i \in 1..Len(validated) :
                   validated[i] = [path |-> p, result |-> "ok"]
        /\ request[1].sized # <<>> /\ request[1].sized[1].result = "ok"
        /\ DOMAIN rateLimitMap # {}

\* C25: the processes of a batch that are executing at the same time are
\* never more than maxConcurrentJobs.
C25_BatchWithinConcurrencyLimit ==
    (request # <<>> /\ request[1].call.name = "batch_process") =>
        Cardinality(InFlight) <= maxConcurrentJobs

\* C26: right after a scheduling tick the pending queue is empty or the
\* running set holds maxConcurrentJobs jobs.
C26_TickFillsFreeSlots ==
    [][Tick => (queue' = <<>> \/ Cardinality(running') = maxConcurrentJobs)]_vars

\* The pending jobs other than j, in queue order.
OtherPending(q, j) == SelectSeq(q, LAMBDA e : e.id # j)

\* Job j fails, times out or is cancelled in this step.
Fails(j) ==
    \/ ExecutorSettles(j, "fails")
    \/ TimeoutFires(j)
    \/ cancelJob(j) /\ cancelJobReturns(j)

\* C27: when job j fails, times out or is cancelled, the other pending jobs
\* and their order, the membership of every other job in the running set
\* and the outcome of every other job's handle stay as they are.
C27_FailureIsolation ==
    [][\A j \in JobIds :
         Fails(j) =>
             /\ OtherPending(queue', j) = OtherPending(queue, j)
             /\ running' \ {j} = running \ {j}
             /\ \A k \in JobIds \ {j} : handle'[k] = handle[k]]_vars

\* A job has failed, timed out or been cancelled while another job is
\* running with its handle pending and a third is waiting.
C27_Witness ==
    \E j, k \in JobIds :
        /\ handle[j] \in {"error", "timeout", "cancelled"}
        /\ k # j /\ k \in running /\ handle[k] = "pending"
        /\ \E l \in QueuedIds : l # j /\ l # k

\* C28: a job is dispatched to the executor at most once, and only while
\* its handle is pending; a job whose handle is settled is not in the
\* pending queue after any step.
C28_NoRetry ==
    [][\A j \in JobIds :
         /\ (exec'[j] = "inflight" /\ exec[j] # "inflight") =>
                (exec[j] = "idle" /\ handle[j] = "pending")
         /\ handle'[j] # "pending" =>
                \A i \in 1..Len(queue') : queue'[i].id # j]_vars

\* A job has failed and another has been cancelled, and the scheduler has
\* dispatched a third job since.
C28_Witness ==
    \E j, k, l \in JobIds :
        /\ handle[j] = "error" /\ exec[j] = "done"
        /\ handle[k] = "cancelled"
        /\ l \in running /\ handle[l] = "pending"

\* A sweep that turns cache c into d evicts the lowest-scoring fifth of c:
\* a fifth of the entries of c, rounded down, and no entry it evicts scores
\* strictly higher than an entry it keeps.
EvictsLowestFifth(c, d) ==
    /\ Len(c) - Len(d) = Len(c) \div 5
    /\ \A i, k \in 1..Len(c) :
           (~HasEntryIn(d, c[i].key) /\ HasEntryIn(d, c[k].key)) =>
               ~ScoreBelow(c[k], c[i])

\* C30: a sweep that runs on more than maxSize entries, the periodic one or
\* the one inside setMediaInfo, evicts the lowest-scoring 20% of the entries
\* present.
C30_SweepEvictsLowestFifth ==
    [][/\ (CleanupInterval /\ Len(mediaInfoCache) > maxSize) =>
              EvictsLowestFifth(mediaInfoCache, mediaInfoCache')
       /\ \A p \in Paths, d \in Versions :
              (setMediaInfo(p, d) /\ TooLarge(AfterSet(p, d))) =>
                  EvictsLowestFifth(AfterSet(p, d), mediaInfoCache')]_vars

\* C33: the periodic sweep removes a client's RateLimitEntry only when its
\* window is stale and the client is not blocked; the entries with a live
\* window and the entries of blocked clients stay as they are, and the sweep
\* leaves the block set alone.
C33_SweepSparesBlockedClients ==
    [][SecurityCleanupInterval =>
          /\ blockedIPs' = blockedIPs
          /\ \A c \in DOMAIN rateLimitMap :
                 IF windowExpired(rateLimitMap[c]) /\ c \notin blockedIPs
                 THEN ~(c \in DOMAIN rateLimitMap')
                 ELSE /\ c \in DOMAIN rateLimitMap'
                      /\ rateLimitMap'[c] = rateLimitMap[c]]_vars

\* An argument that names an input file of a legitimate job: a path-like
\* argument of an existing file inside an allowed directory.
ExistingInput(a) == PathLike(a) /\ validateFilePathPasses(a)

\* An argument that names the output of a legitimate job: a path-like
\* argument without traversal marker or blocked extension, inside an allowed
\* directory, of a file that does not exist yet.
NewOutput(a) ==
    /\ PathLike(a)
    /\ ~HasTraversalMarker(a)
    /\ UnderAllowedDirectory(a)
    /\ ~HasBlockedExtension(a)
    /\ ~PathExists(a)

\* C34: from an argument list with an existing input file inside an allowed
\* directory and an output path inside an allowed directory that does not
\* exist yet, sanitizeFFmpegArgs retains both the input path and the output
\* path.
C34_LegitimateJobKept ==
    sanitized # <<>> =>
        \A i, k \in 1..Len(args) :
            (ExistingInput(args[i]) /\ NewOutput(args[k])) =>
                \E m, n \in 1..Len(Returned) :
                    Returned[m] = args[i] /\ Returned[n] = args[k]

\* C37: sanitizeFFmpegArgs is idempotent: sanitizing the list it returned,
\* with the same files, returns that list again.
C37_SanitizeIdempotent ==
    sanitized # <<>> => sanitizeFFmpegArgs(Returned) = Returned

\* C38: a client enters the block set only by a checkRateLimit call of its
\* own that comes on top of at least rateLimitMaxRequests earlier calls of
\* that client made no more than one window length before it, so that more
\* than the ceiling of calls lie within one window length; neither a window
\* reset nor a sweep blocks a client.
C38_NoFalseBlocking ==
    [][\A c \in Clients :
         (c \notin blockedIPs /\ c \in blockedIPs') =>
             /\ checkRateLimit(c)
             /\ Len(Recent(admittedAt[c], now)) + 1 > rateLimitMaxRequests]_vars

\* A client has been blocked in its second window, which a request opened
\* after the first had run out with the ceiling of requests in it.
C38_Witness ==
    \E c \in blockedIPs :
        /\ HasWindow(c)
        /\ rateLimitMap[c].windowStart > WindowMs
        /\ rateLimitMap[c].count = rateLimitMaxRequests + 1

\* The jobs whose executeJob call has been made and has not reported yet.
ExecutorsInFlight == {j \in JobIds : exec[j] = "inflight"}

\* C36: the executeJob calls that have been started and have not reported
\* completion or failure, those of cancelled and timed-out jobs included,
\* are at most maxConcurrentJobs at any time.
C36_ExecutorsWithinLimit ==
    Cardinality(ExecutorsInFlight) <= maxConcurrentJobs

\* C32: while a key stays cached its accessCount never decreases: a hit
\* increments it by one, and no other step, a repeated setMediaInfo for the
\* same path by a concurrent caller included, lowers it.
C32_AccessCountMonotonic ==
    [][\A p \in RequestedPaths :
         (HasEntry(p) /\ HasEntryIn(mediaInfoCache', p)) =>
             /\ EntryIn(mediaInfoCache', p).accessCount >=
                    EntryIn(mediaInfoCache, p).accessCount
             /\ (\/ Lookup(p)
                 \/ \E c \in Callers : ToolGetMediaInfo(c, p)) =>
                    EntryIn(mediaInfoCache', p).accessCount =
                        EntryIn(mediaInfoCache, p).accessCount + 1]_vars

\* The entries of cache c that are gone from cache d.
Evicted(c, d) == {i \in 1..Len(c) : ~HasEntryIn(d, c[i].key)}

\* C31: in a sweep over a cache that exceeds its maximum, an entry whose
\* accessCount is far higher than every other entry's (HighAccess against
\* 1) survives whatever the entries' ages, and at least a fifth of maxSize
\* of the entries with accessCount 1 are evicted.
C31_HighAccessSurvives ==
    [][(CleanupInterval /\ Len(mediaInfoCache) > maxSize) =>
          /\ \A i \in 1..Len(mediaInfoCache) :
                 mediaInfoCache[i].accessCount = HighAccess =>
                     HasEntryIn(mediaInfoCache', mediaInfoCache[i].key)
          /\ 5 * Cardinality({i \in Evicted(mediaInfoCache, mediaInfoCache') :
                                 mediaInfoCache[i].accessCount = 1})
                 >= maxSize]_vars

\* The processes of the handled call that have closed with state s.
Closed(s) == {k \in request[1].pids : processes[k].state = s}

\* C40: in a batch, completed + failed never exceeds total and errors holds
\* one message per failed job; every job is counted once, as completed when
\* its ffmpeg run succeeded and as failed when its checks threw or its run
\* failed; when processBatch returns, completed + failed is total.
C40_BatchProgressConsistent ==
    (request # <<>> /\ request[1].call.name = "batch_process") =>
        LET progress == request[1].progress
        IN  /\ progress.completed + progress.failed <= progress.total
            /\ Len(progress.errors) = progress.failed
            /\ progress.completed = Cardinality(Closed("resolved"))
            /\ progress.failed =
                   (progress.total - Cardinality(request[1].pids))
                       + Cardinality(Closed("rejected"))
            /\ request[1].state = "returned" =>
                   progress.completed + progress.failed = progress.total

\* A batch of three jobs has returned: one job failed its checks, one ffmpeg
\* run failed and one succeeded.
C40_Witness ==
    /\ request # <<>>
    /\ request[1].call.name = "batch_process"
    /\ request[1].state = "returned"
    /\ request[1].progress.total = 3
    /\ request[1].progress.completed = 1
    /\ Cardinality(Closed("rejected")) = 1
    /\ Len(request[1].progress.errors) = 2

\* The temporary file a call that has not returned is working with.
TempFileOf(c) ==
    IF toolCall[c].pc = "executing" THEN {tempListFile}
    ELSE IF toolCall[c].pc \in {"palettegen", "paletteuse"} THEN {paletteFile}
    ELSE {}

\* C39: calls in flight do not share a temporary file; the ffmpeg process
\* of a call reads the temporary file that call wrote; and a call whose
\* ffmpeg run succeeded returns success.
C39_TempFilesPrivate ==
    /\ \A c, d \in Callers : c # d => TempFileOf(c) \cap TempFileOf(d) = {}
    /\ \A c \in Callers :
           toolCall[c].read # <<>> => toolCall[c].read = <<c>>
    /\ \A c \in Callers :
           toolCall[c].exit = <<0>> => toolCall[c].result = "success"

====
